---- MODULE Spec2Model ----
(***************************************************************************)
(* Model of the /process engine of app/server.py: the in-flight counter,   *)
(* the rolling latency window and its p95, the device mode and the         *)
(* simulation toggle.  Handlers run on a thread pool (plain "def"          *)
(* endpoints), so every read and every write of a module global is a step  *)
(* of its own.                                                             *)
(*                                                                         *)
(* Durations are integers (nanoseconds in the engine, plain numbers in the *)
(* percentile checks); a pixels string is a sequence of one-character      *)
(* strings.                                                                *)
(***************************************************************************)
EXTENDS Integers, Sequences, FiniteSets, TLC

\* ------------------------------------------------------------------ bounds
Workers == {"w1", "w2"}
Togglers == {"t1", "t2"}
MaxCalls == 2
MaxToggles == 4
MaxExtra == 5
MaxSeqLen == 4

\* read-only requests (healthz, metrics, status) answered in one behaviour
MaxProbes == 1

\* longest pixels string handed to parse_pixels on its own
MaxPixLen == 4

\* webrtc_offer requests in one behaviour, and peer connections they create
MaxOffers == 2

\* toggles made while process() and the read-only endpoints run beside them
MaxMixedToggles == 1

\* ------------------------------------------------------- program constants
maxlen == 512
GPU_CONSISTENCY_PCT == 15
SIM_BASE_NS == 3000000
SIM_PER_ITER_NS == 500000
SIM_MIN_NS == 2000000
SIM_MAX_NS == 15000000

\* --------------------------------------------------------------- utilities
Range(s) == {s[i] : i \in 1..Len(s)}

Min2(a, b) == IF a < b THEN a ELSE b

Max2(a, b) == IF a > b THEN a ELSE b

Digits == {"0", "1", "2", "3", "4", "5", "6", "7", "8", "9"}

DigitVal(c) ==
  CASE c = "0" -> 0 [] c = "1" -> 1 [] c = "2" -> 2 [] c = "3" -> 3
    [] c = "4" -> 4 [] c = "5" -> 5 [] c = "6" -> 6 [] c = "7" -> 7
    [] c = "8" -> 8 [] c = "9" -> 9

\* int() of a non-empty run of decimal digits
RECURSIVE int(_)
int(s) ==
  IF Len(s) = 0 THEN 0
  ELSE 10 * int(SubSeq(s, 1, Len(s) - 1)) + DigitVal(s[Len(s)])

\* ------------------------------------------------------------ parse_pixels
\* re.match(r"^(\d+)[xX](\d+)$", p): "$" matches at the very end and also
\* just before one trailing newline.
parse_pixels(p) ==
  LET body == IF Len(p) > 0 /\ p[Len(p)] = "\n" THEN SubSeq(p, 1, Len(p) - 1) ELSE p
      seps == {i \in 1..Len(body) : body[i] \in {"x", "X"}}
      good(i) == /\ i > 1
                 /\ i < Len(body)
                 /\ \A j \in 1..(i - 1) : body[j] \in Digits
                 /\ \A j \in (i + 1)..Len(body) : body[j] \in Digits
  IN IF \E i \in seps : good(i)
     THEN LET i == CHOOSE k \in seps : good(k)
          IN [ok |-> TRUE,
              w |-> int(SubSeq(body, 1, i - 1)),
              h |-> int(SubSeq(body, i + 1, Len(body)))]
     ELSE [ok |-> FALSE, w |-> 0, h |-> 0]

\* --------------------------------------------------------------------- p95
\* sorted(values): ascending, by insertion
RECURSIVE insert(_, _)
insert(s, x) ==
  IF Len(s) = 0 THEN <<x>>
  ELSE IF x <= Head(s) THEN <<x>> \o s
  ELSE <<Head(s)>> \o insert(Tail(s), x)

RECURSIVE sorted_desc(_)
sorted_desc(values) ==
  IF Len(values) = 0 THEN <<>>
  ELSE LET r == sorted_desc(Tail(values))
           x == Head(values)
           k == Cardinality({i \in 1..Len(r) : r[i] >= x})
       IN SubSeq(r, 1, k) \o <<x>> \o SubSeq(r, k + 1, Len(r))

RECURSIVE sorted(_)
sorted(values) ==
  IF Len(values) = 0 THEN <<>>
  ELSE insert(sorted(Tail(values)), Head(values))

\* int(0.95 * k): the double product truncated.  It equals (95 * k) \div 100
\* for every k below 100000, far beyond the 511 the window allows.
idx95_ceil(k) == (95 * k + 99) \div 100

idx95(k) == (95 * k) \div 100

p95(values) ==
  IF Len(values) = 0 THEN 0
  ELSE LET s == sorted(values)
           idx == idx95(Len(s) - 1)
       IN s[idx + 1]

\* percentile(p) of the latency window: p95 with 0.95 read as p/100
percentile(values, p) ==
  IF Len(values) = 0 THEN 0
  ELSE LET s == sorted(values)
           idx == (p * (Len(s) - 1)) \div 100
       IN s[idx + 1]

\* ---------------------------------------------------------- latency window
\* deque(maxlen=512).append(d)
append_newest_dropped(w, d) == IF Len(w) >= maxlen THEN w ELSE Append(w, d)

append(w, d) == IF Len(w) >= maxlen THEN Append(Tail(w), d) ELSE Append(w, d)

\* -------------------------------------------------------------- device_str
device_str_cuda_first(sim, torch, wanted, avail) ==
  IF torch /\ wanted /\ avail THEN "cuda"
  ELSE IF sim THEN "cuda-simulated"
  ELSE "cpu"

device_str(sim, torch, wanted, avail) ==
  IF sim THEN "cuda-simulated"
  ELSE IF ~torch THEN "cpu"
  ELSE IF wanted /\ avail THEN "cuda"
  ELSE "cpu"

\* ------------------------------------------------------------------- state
VARIABLES
  _concurrent_requests,  \* server.py:32
  GPU_SIMULATION,        \* server.py:46
  DEVICE,                \* server.py:61
  CUDA_WANTED,           \* server.py:44
  torch_imported,        \* server.py:9-18, torch (and np) is not None
  cuda_available,        \* what torch.cuda.is_available() answers
  _last_latencies,       \* server.py:42
  REQUESTS,              \* server.py:34, the "process" label
  LATENCY,               \* server.py:35, number of observations
  LATENCY_P95,           \* server.py:41
  call,                  \* per worker thread: position and locals of process()
  tog,                   \* per toggling thread: position and locals
  hist,                  \* per worker: bookkeeping of the current call
  tq,                    \* bookkeeping of toggles run one after another
  calls,                 \* process() calls begun
  toggles,               \* toggles begun
  flag0,                 \* the override flag at start-up
  recorded,              \* every duration ever appended, in order
  arg,                   \* input of the function under check
  out,                   \* its result
  REQUESTS_healthz,      \* server.py:34, the "healthz" label
  probe,                 \* last answer of a read-only endpoint
  probed,                \* read-only requests answered
  AIORTC_AVAILABLE,      \* webrtc_processor.py:13-22, server.py:258-262
  webrtc_manager,        \* server.py:259-261: the manager exists (is not None)
  connections,           \* webrtc_processor.py:136, WebRTCManager.connections
  peers,                 \* per RTCPeerConnection: its connectionState
  offer,                 \* per webrtc_offer task: position and locals
  pending,               \* scheduled on_connectionstatechange handlers
  cleanup,               \* position and locals of shutdown_event / cleanup()
  offers                 \* webrtc_offer requests begun

vars == <<_concurrent_requests, GPU_SIMULATION, DEVICE, CUDA_WANTED,
          torch_imported, cuda_available, _last_latencies, REQUESTS, LATENCY,
          LATENCY_P95, call, tog, hist, tq, calls, toggles, flag0, recorded, arg, out,
          REQUESTS_healthz, probe, probed, AIORTC_AVAILABLE, webrtc_manager,
          connections, peers, offer, pending, cleanup, offers>>

engine == <<_concurrent_requests, _last_latencies, REQUESTS, LATENCY,
            LATENCY_P95, call, hist, calls, recorded>>

mode == <<GPU_SIMULATION, DEVICE, tog, tq, toggles, flag0>>

env == <<CUDA_WANTED, torch_imported, cuda_available>>

scratch == <<arg, out>>

probes == <<REQUESTS_healthz, probe, probed>>

rtc == <<AIORTC_AVAILABLE, webrtc_manager, connections, peers, offer, pending,
         cleanup, offers>>

\* ------------------------------------------------------------------ inputs
PixelInputs == {<<"1", "2", "8", "0", "x", "7", "2", "0">>, <<"b", "a", "d">>}

IterInputs == {-1, 2}

\* random.uniform(-GPU_CONSISTENCY_FACTOR, GPU_CONSISTENCY_FACTOR), in percent
Variations == {-GPU_CONSISTENCY_PCT, GPU_CONSISTENCY_PCT}

SlackNs == {1000}

WorkNs == {20000000}

NoShape == <<>>

NoResult ==
  [ok |-> FALSE, device |-> "", pixels |-> <<0, 0>>, iters |-> 0,
   latency_seconds |-> 0, processing_mode |-> "", result_shape |-> NoShape,
   concurrent_requests |-> 0]

NoToggleResult == [gpu_simulation |-> FALSE, device |-> ""]

IdleCall ==
  [pc |-> "idle", pixels |-> <<>>, iters |-> 0, reg |-> 0, w |-> 0, h |-> 0,
   shape |-> NoShape, ran |-> <<>>, sim_ns |-> 0, dur |-> 0, snap |-> <<>>,
   status |-> 0, result |-> NoResult, variation |-> 0, load |-> 0, work |-> 0]

IdleTog == [pc |-> "idle", f |-> FALSE, saw |-> FALSE, d |-> "cpu", resp |-> NoToggleResult]

NoProbe ==
  [endpoint |-> "", device |-> "", gpu_simulation |-> FALSE, cuda |-> FALSE, count |-> 0]

NoHist ==
  [solo |-> FALSE, incs |-> 0, decs |-> 0, reqs |-> 0, obs |-> 0, recs |-> 0, set |-> -1,
   pre |-> [cnt |-> 0, win |-> <<>>, lat |-> 0, p95 |-> 0]]

NoChain ==
  [n |-> -1, sim0 |-> FALSE, dev0 |-> "cpu", sim1 |-> FALSE, dev1 |-> "cpu", by |-> ""]

\* ------------------------------------------------------------------- Init
InitEnv ==
  /\ CUDA_WANTED \in BOOLEAN
  /\ torch_imported \in BOOLEAN
  /\ cuda_available \in BOOLEAN

InitMode ==
  /\ GPU_SIMULATION \in BOOLEAN
  /\ DEVICE = device_str(GPU_SIMULATION, torch_imported, CUDA_WANTED, cuda_available)
  /\ tog = [t \in Togglers |-> IdleTog]
  /\ tq = NoChain
  /\ toggles = 0
  /\ flag0 = GPU_SIMULATION

InitEngine ==
  /\ _concurrent_requests = 0
  /\ _last_latencies = <<>>
  /\ REQUESTS = 0
  /\ LATENCY = 0
  /\ LATENCY_P95 = 0
  /\ call = [p \in Workers |-> IdleCall]
  /\ hist = [p \in Workers |-> NoHist]
  /\ calls = 0
  /\ recorded = <<>>

\* the tasks of the event loop that run webrtc_offer
OfferTasks == {"o1", "o2"}

PeerIds == 1..MaxOffers

IdleOffer == [pc |-> "idle", conn |-> 0, failed |-> FALSE, status |-> 0]

IdleCleanup == [pc |-> "idle", todo |-> {}]

InitRtcIdle ==
  /\ connections = {}
  /\ peers = [id \in PeerIds |-> "none"]
  /\ offer = [o \in OfferTasks |-> IdleOffer]
  /\ pending = {}
  /\ cleanup = IdleCleanup
  /\ offers = 0

\* "from webrtc_processor import ..." failed, server.py:260-262
InitRtcOff ==
  /\ AIORTC_AVAILABLE = FALSE
  /\ webrtc_manager = FALSE
  /\ InitRtcIdle

InitProbes ==
  /\ REQUESTS_healthz = 0
  /\ probe = NoProbe
  /\ probed = 0

InitScratch ==
  /\ arg = <<>>
  /\ out = [f |-> "none", p |-> 0, v |-> 0]
  /\ InitProbes /\ InitRtcOff

\* deployments: simulation on; a working accelerator; no accelerator with
\* and without the tensor libraries
Configs ==
  {[sim |-> TRUE, wanted |-> TRUE, torch |-> FALSE, avail |-> FALSE],
   [sim |-> FALSE, wanted |-> TRUE, torch |-> TRUE, avail |-> TRUE],
   [sim |-> FALSE, wanted |-> TRUE, torch |-> TRUE, avail |-> FALSE],
   [sim |-> FALSE, wanted |-> TRUE, torch |-> FALSE, avail |-> FALSE]}

Init ==
  /\ InitEnv /\ InitMode /\ InitEngine /\ InitScratch
  /\ [sim |-> GPU_SIMULATION, wanted |-> CUDA_WANTED, torch |-> torch_imported,
      avail |-> cuda_available] \in Configs

InitToggle == InitEnv /\ InitMode /\ InitEngine /\ InitScratch

\* -------------------------------------------------------------- process()
\* the simulated accelerator's sleep, server.py:186-189, in nanoseconds
\* base * (1 + variation) is taken quotient and remainder apart, so that no
\* intermediate product leaves the 32-bit range
scaled(base, variation) ==
  (base \div 100) * (100 + variation) + ((base % 100) * (100 + variation)) \div 100

\* an integer beyond the largest double (about 1.8e308), such as the value of
\* a 400-digit width; int() returns it exact, float arithmetic cannot hold it
Huge == 2147483647

\* w * h * 0.000000001 at server.py:186: the exact integer product is
\* converted to a double, which raises OverflowError beyond the double range
float_overflows(w, h) == (w = Huge /\ h # 0) \/ (h = Huge /\ w # 0)

simulated_gpu_duration(w, h, iters, variation) ==
  LET base_gpu_time == SIM_BASE_NS + iters * SIM_PER_ITER_NS + w * h
      d == scaled(base_gpu_time, variation)
  IN Max2(SIM_MIN_NS, Min2(SIM_MAX_NS, d))

\* units of work: the one sleep of the simulation (server.py:190), the passes
\* of the loop of real_gpu_process (98) and of cpu_intensive_process (137
\* without numpy, 144 with it); range(n) is empty for n <= 0
sim_work == 1

gpu_work(iters) == Max2(0, iters)

cpu_work(w, h, iters) ==
  IF torch_imported THEN Max2(0, iters) ELSE Max2(0, (iters * w * h) \div 1000)

\* where a call goes when real_gpu_process raises, server.py:197-200
retry_accelerator == "gpu"

after_accelerator_failure == "cpu"

\* the except branch at server.py:197-200 assigns result_shape only
device_demoted(dev) == "cpu"

device_after_gpu_failure(dev) == dev

requests_inc_twice(c) == c + 2

requests_inc(c) == c + 1

\* shape returned by real_gpu_process, server.py:95-130
real_gpu_shape(w, h, iters) ==
  IF iters >= 1 THEN <<1, 3, 2 * (h \div 2), 2 * (w \div 2)>> ELSE <<1, 3, h, w>>

\* shape returned by cpu_intensive_process, server.py:134-166
cpu_shape(w, h) == IF torch_imported THEN <<3, h, w>> ELSE <<1, 3, h, w>>

\* the numpy branch can run out of memory; the plain loop cannot raise
cpu_may_raise(iters) == torch_imported /\ iters >= 1

incremented(c) == c + 1

decrement_skipped(c) == c

decremented(c) == c - 1

OthersIdle(p) == \A q \in Workers \ {p} : call[q].pc = "idle"

\* server.py:171, the read of "_concurrent_requests += 1"
Begin(p) ==
  /\ call[p].pc = "idle"
  /\ calls < MaxCalls
  /\ \E px \in PixelInputs, it \in IterInputs :
       call' = [call EXCEPT ![p] = [IdleCall EXCEPT !.pc = "inc_write", !.pixels = px,
                                     !.iters = it, !.reg = _concurrent_requests]]
  /\ calls' = calls + 1
  /\ hist' = [q \in Workers |->
               IF q = p
               THEN [NoHist EXCEPT !.solo = OthersIdle(p),
                                   !.pre = [cnt |-> _concurrent_requests, win |-> _last_latencies,
                              lat |-> LATENCY, p95 |-> LATENCY_P95]]
               ELSE [hist[q] EXCEPT !.solo = FALSE]]
  /\ UNCHANGED <<_concurrent_requests, _last_latencies, REQUESTS, LATENCY,
                 LATENCY_P95, recorded>>
  /\ UNCHANGED <<mode, env, scratch, probes, rtc>>

\* server.py:171, the write
IncWrite(p) ==
  /\ call[p].pc = "inc_write"
  /\ _concurrent_requests' = incremented(call[p].reg)
  /\ call' = [call EXCEPT ![p].pc = "parse"]
  /\ hist' = [hist EXCEPT ![p].incs = @ + 1]
  /\ UNCHANGED <<_last_latencies, REQUESTS, LATENCY, LATENCY_P95, calls, recorded>>
  /\ UNCHANGED <<mode, env, scratch, probes, rtc>>

\* server.py:173-178
Parse(p) ==
  /\ call[p].pc = "parse"
  /\ REQUESTS' = requests_inc(REQUESTS)
  /\ LET r == parse_pixels(call[p].pixels)
     IN call' = [call EXCEPT ![p] =
                   IF r.ok THEN [@ EXCEPT !.pc = "select", !.w = r.w, !.h = r.h]
                   ELSE [@ EXCEPT !.pc = "done", !.status = 400]]
  /\ hist' = [hist EXCEPT ![p].reqs = @ + (REQUESTS' - REQUESTS)]
  /\ UNCHANGED <<_concurrent_requests, _last_latencies, LATENCY, LATENCY_P95,
                 calls, recorded>>
  /\ UNCHANGED <<mode, env, scratch, probes, rtc>>

\* server.py:183-191
Select(p) ==
  /\ call[p].pc = "select"
  /\ IF GPU_SIMULATION
     THEN IF float_overflows(call[p].w, call[p].h)
          THEN call' = [call EXCEPT ![p] =
                         [@ EXCEPT !.pc = "done", !.ran = <<"sim">>, !.status = 500]]
          ELSE \E variation \in Variations :
            call' = [call EXCEPT ![p] =
                      [@ EXCEPT !.pc = "timed",
                                !.sim_ns = simulated_gpu_duration(call[p].w, call[p].h, call[p].iters, variation),
                                !.shape = <<1, 3, call[p].h, call[p].w>>,
                                !.ran = <<"sim">>,
                                !.variation = variation,
                                !.load = _concurrent_requests,
                                !.work = sim_work]]
     ELSE call' = [call EXCEPT ![p].pc = "select2"]
  /\ UNCHANGED <<_concurrent_requests, _last_latencies, REQUESTS, LATENCY,
                 LATENCY_P95, hist, calls, recorded>>
  /\ UNCHANGED <<mode, env, scratch, probes, rtc>>

\* server.py:193
Select2(p) ==
  /\ call[p].pc = "select2"
  /\ call' = [call EXCEPT ![p].pc =
               IF DEVICE = "cuda" /\ torch_imported /\ cuda_available
               THEN "gpu" ELSE "cpu"]
  /\ UNCHANGED <<_concurrent_requests, _last_latencies, REQUESTS, LATENCY,
                 LATENCY_P95, hist, calls, recorded>>
  /\ UNCHANGED <<mode, env, scratch, probes, rtc>>

\* server.py:195-199, real_gpu_process returns or raises
Gpu(p) ==
  /\ call[p].pc = "gpu"
  /\ \E raises \in BOOLEAN :
       /\ call' = [call EXCEPT ![p] =
                 IF raises
                 THEN [@ EXCEPT !.pc = after_accelerator_failure, !.ran = Append(@, "gpu")]
                 ELSE [@ EXCEPT !.pc = "timed", !.ran = Append(@, "gpu"),
                                !.shape = real_gpu_shape(call[p].w, call[p].h, call[p].iters),
                                !.load = _concurrent_requests,
                                !.work = gpu_work(call[p].iters)]]
       /\ DEVICE' = IF raises THEN device_after_gpu_failure(DEVICE) ELSE DEVICE
  /\ UNCHANGED <<_concurrent_requests, _last_latencies, REQUESTS, LATENCY,
                 LATENCY_P95, hist, calls, recorded>>
  /\ UNCHANGED <<GPU_SIMULATION, tog, tq, toggles, flag0>>
  /\ UNCHANGED <<env, scratch, probes, rtc>>

\* server.py:200 and 204, cpu_intensive_process returns or raises; nothing
\* catches the exception, so the handler ends there with a 500
Cpu(p) ==
  /\ call[p].pc = "cpu"
  /\ \E raises \in {FALSE, cpu_may_raise(call[p].iters)} :
       call' = [call EXCEPT ![p] =
                 IF raises
                 THEN [@ EXCEPT !.pc = "done", !.ran = Append(@, "cpu"), !.status = 500]
                 ELSE [@ EXCEPT !.pc = "timed", !.ran = Append(@, "cpu"),
                                !.shape = cpu_shape(call[p].w, call[p].h),
                                !.load = _concurrent_requests,
                                !.work = cpu_work(call[p].w, call[p].h, call[p].iters)]]
  /\ UNCHANGED <<_concurrent_requests, _last_latencies, REQUESTS, LATENCY,
                 LATENCY_P95, hist, calls, recorded>>
  /\ UNCHANGED <<mode, env, scratch, probes, rtc>>

\* server.py:206 and the read of "_concurrent_requests -= 1" at 207
Timed(p) ==
  /\ call[p].pc = "timed"
  /\ \E d \in (IF call[p].ran = <<"sim">>
               THEN {call[p].sim_ns + s : s \in SlackNs} ELSE WorkNs) :
       call' = [call EXCEPT ![p] =
                 [@ EXCEPT !.pc = "dec_write", !.dur = d, !.reg = _concurrent_requests]]
  /\ UNCHANGED <<_concurrent_requests, _last_latencies, REQUESTS, LATENCY,
                 LATENCY_P95, hist, calls, recorded>>
  /\ UNCHANGED <<mode, env, scratch, probes, rtc>>

\* server.py:207, the write
DecWrite(p) ==
  /\ call[p].pc = "dec_write"
  /\ _concurrent_requests' = decremented(call[p].reg)
  /\ call' = [call EXCEPT ![p].pc = "record"]
  /\ hist' = [hist EXCEPT ![p].decs = @ + 1]
  /\ UNCHANGED <<_last_latencies, REQUESTS, LATENCY, LATENCY_P95, calls, recorded>>
  /\ UNCHANGED <<mode, env, scratch, probes, rtc>>

\* server.py:209-210, LATENCY.observe(dur) and _last_latencies.append(dur)
record(dur) ==
  /\ LATENCY' = LATENCY + 1
  /\ _last_latencies' = append(_last_latencies, dur)
  /\ recorded' = Append(recorded, dur)

\* list(_last_latencies) at server.py:211: one C-level pass over the deque,
\* with no bytecode boundary at which another thread's append could fall
list_newest_missing(window) ==
  IF Len(window) = 0 THEN window ELSE SubSeq(window, 1, Len(window) - 1)

list(window) == window

Record(p) ==
  /\ call[p].pc = "record"
  /\ record(call[p].dur)
  /\ call' = [call EXCEPT ![p].pc = "snapshot"]
  /\ hist' = [hist EXCEPT ![p].obs = @ + (LATENCY' - LATENCY),
                          ![p].recs = @ + (Len(recorded') - Len(recorded))]
  /\ UNCHANGED <<_concurrent_requests, REQUESTS, LATENCY_P95, calls>>
  /\ UNCHANGED <<mode, env, scratch, probes, rtc>>

\* server.py:211, list(_last_latencies)
Snapshot(p) ==
  /\ call[p].pc = "snapshot"
  /\ call' = [call EXCEPT ![p] = [@ EXCEPT !.pc = "gauge", !.snap = list(_last_latencies)]]
  /\ UNCHANGED <<_concurrent_requests, _last_latencies, REQUESTS, LATENCY,
                 LATENCY_P95, hist, calls, recorded>>
  /\ UNCHANGED <<mode, env, scratch, probes, rtc>>

\* server.py:211, LATENCY_P95.set(p95(...))
SetGauge(p) ==
  /\ call[p].pc = "gauge"
  /\ LATENCY_P95' = p95(call[p].snap)
  /\ call' = [call EXCEPT ![p].pc = "return"]
  /\ hist' = [hist EXCEPT ![p].set = LATENCY_P95']
  /\ UNCHANGED <<_concurrent_requests, _last_latencies, REQUESTS, LATENCY,
                 calls, recorded>>
  /\ UNCHANGED <<mode, env, scratch, probes, rtc>>

\* server.py:213-223
Return(p) ==
  /\ call[p].pc = "return"
  /\ call' = [call EXCEPT ![p] =
               [@ EXCEPT !.pc = "done", !.status = 200,
                         !.result = [ok |-> TRUE,
                                     device |-> DEVICE,
                                     pixels |-> <<call[p].w, call[p].h>>,
                                     iters |-> call[p].iters,
                                     latency_seconds |-> call[p].dur,
                                     processing_mode |-> IF DEVICE = "cuda" THEN "gpu" ELSE "cpu",
                                     result_shape |-> call[p].shape,
                                     concurrent_requests |-> _concurrent_requests]]]
  /\ UNCHANGED <<_concurrent_requests, _last_latencies, REQUESTS, LATENCY,
                 LATENCY_P95, hist, calls, recorded>>
  /\ UNCHANGED <<mode, env, scratch, probes, rtc>>

\* the response (200, 400 or 500) leaves; the thread is free again
Respond(p) ==
  /\ call[p].pc = "done"
  /\ call' = [call EXCEPT ![p] = IdleCall]
  /\ hist' = [hist EXCEPT ![p] = NoHist]
  /\ UNCHANGED <<_concurrent_requests, _last_latencies, REQUESTS, LATENCY,
                 LATENCY_P95, calls, recorded>>
  /\ UNCHANGED <<mode, env, scratch, probes, rtc>>

process(p) ==
  \/ Begin(p) \/ IncWrite(p) \/ Parse(p) \/ Select(p) \/ Select2(p) \/ Gpu(p)
  \/ Cpu(p) \/ Timed(p) \/ DecWrite(p) \/ Record(p) \/ Snapshot(p) \/ SetGauge(p)
  \/ Return(p) \/ Respond(p)

\* -------------------------------------------------- toggle_gpu_simulation()
\* server.py:234, "not GPU_SIMULATION"
flip_set_on(f) == TRUE

flipped(f) == ~f

OtherTogglersIdle(t) == \A u \in Togglers \ {t} : tog[u].pc = "idle"

\* server.py:234, the read of "GPU_SIMULATION = not GPU_SIMULATION"
TBegin(t, limit) ==
  /\ tog[t].pc = "idle"
  /\ toggles < limit
  /\ toggles' = toggles + 1
  /\ tog' = [tog EXCEPT ![t] = [IdleTog EXCEPT !.pc = "t_write", !.f = GPU_SIMULATION]]
  /\ tq' = IF ~OtherTogglersIdle(t) THEN NoChain
           ELSE IF tq.n = 1 THEN tq
           ELSE [NoChain EXCEPT !.n = 0, !.sim0 = GPU_SIMULATION, !.dev0 = DEVICE]
  /\ UNCHANGED <<GPU_SIMULATION, DEVICE, flag0>>
  /\ UNCHANGED <<engine, env, scratch, probes, rtc>>

\* server.py:234, the write
TWrite(t) ==
  /\ tog[t].pc = "t_write"
  /\ GPU_SIMULATION' = flipped(tog[t].f)
  /\ tog' = [tog EXCEPT ![t].pc = "t_dev"]
  /\ UNCHANGED <<DEVICE, tq, toggles, flag0>>
  /\ UNCHANGED <<engine, env, scratch, probes, rtc>>

\* server.py:235, the call device_str()
TDev(t) ==
  /\ tog[t].pc = "t_dev"
  /\ tog' = [tog EXCEPT ![t] =
              [@ EXCEPT !.pc = "t_store", !.saw = GPU_SIMULATION,
                        !.d = device_str(GPU_SIMULATION, torch_imported,
                                         CUDA_WANTED, cuda_available)]]
  /\ UNCHANGED <<GPU_SIMULATION, DEVICE, tq, toggles, flag0>>
  /\ UNCHANGED <<engine, env, scratch, probes, rtc>>

\* server.py:235, the assignment to DEVICE
TStore(t) ==
  /\ tog[t].pc = "t_store"
  /\ DEVICE' = tog[t].d
  /\ tog' = [tog EXCEPT ![t].pc = "t_ret"]
  /\ UNCHANGED <<GPU_SIMULATION, tq, toggles, flag0>>
  /\ UNCHANGED <<engine, env, scratch, probes, rtc>>

\* server.py:236-241
TReturn(t) ==
  /\ tog[t].pc = "t_ret"
  /\ tog' = [tog EXCEPT ![t] =
              [IdleTog EXCEPT !.resp = [gpu_simulation |-> GPU_SIMULATION,
                                        device |-> DEVICE]]]
  /\ tq' = IF tq.n = 0
           THEN [tq EXCEPT !.n = 1, !.sim1 = GPU_SIMULATION, !.dev1 = DEVICE, !.by = t]
           ELSE IF tq.n > 0 THEN [tq EXCEPT !.n = @ + 1, !.by = t]
           ELSE tq
  /\ UNCHANGED <<GPU_SIMULATION, DEVICE, toggles, flag0>>
  /\ UNCHANGED <<engine, env, scratch, probes, rtc>>

toggle_gpu_simulation(t, limit) ==
  \/ TBegin(t, limit) \/ TWrite(t) \/ TDev(t) \/ TStore(t) \/ TReturn(t)

\* ---------------------------------------------------------- specifications
\* the engine: the worker threads
Next == \E p \in Workers : process(p)

Spec == Init /\ [][Next]_vars

\* the toggle alone, two threads
NextToggle == \E t \in Togglers : toggle_gpu_simulation(t, MaxToggles)

SpecToggle == InitToggle /\ [][NextToggle]_vars

\* the simulation branch on its own, server.py:186-191, over iterations,
\* widths, heights and variation draws far apart
SimSides == {0, 1, 1280, 30000, Huge}

SimIters == {-100, -1, 0, 5, 24, 1000}

SimVariations == {-GPU_CONSISTENCY_PCT, -7, 0, 7, GPU_CONSISTENCY_PCT}

InitSim ==
  /\ InitEnv /\ InitMode /\ InitEngine /\ InitProbes /\ InitRtcOff
  /\ GPU_SIMULATION
  /\ [wanted |-> CUDA_WANTED, torch |-> torch_imported, avail |-> cuda_available]
       = [wanted |-> TRUE, torch |-> FALSE, avail |-> FALSE]
  /\ arg \in SimSides \X SimSides \X SimIters \X SimVariations
  /\ out = [f |-> "none", p |-> 0, v |-> 0]

ApplySim ==
  /\ out.f = "none"
  /\ out' = IF float_overflows(arg[1], arg[2])
            THEN [f |-> "sim", raised |-> TRUE, duration |-> 0, result_shape |-> NoShape]
            ELSE [f |-> "sim", raised |-> FALSE,
                  duration |-> simulated_gpu_duration(arg[1], arg[2], arg[3], arg[4]),
                  result_shape |-> <<1, 3, arg[2], arg[1]>>]
  /\ UNCHANGED <<arg, engine, mode, env, probes, rtc>>

NextSim == ApplySim

SpecSim == InitSim /\ [][NextSim]_vars

\* parse_pixels on its own, server.py:73-77, over short strings of digits,
\* separators and other characters
PixelChars == {"0", "1", "x", "X", "a", " ", "\n"}

PixelStrings == UNION {[1..n -> PixelChars] : n \in 0..MaxPixLen}

InitParse ==
  /\ InitEnv /\ InitMode /\ InitEngine /\ InitProbes /\ InitRtcOff
  /\ [sim |-> GPU_SIMULATION, wanted |-> CUDA_WANTED, torch |-> torch_imported,
      avail |-> cuda_available] = [sim |-> FALSE, wanted |-> TRUE, torch |-> FALSE, avail |-> FALSE]
  /\ arg \in PixelStrings
  /\ out = [f |-> "none", p |-> 0, v |-> 0]

ApplyParse ==
  /\ out.f = "none"
  /\ out' = [f |-> "parse_pixels", r |-> parse_pixels(arg)]
  /\ UNCHANGED <<arg, engine, mode, env, probes, rtc>>

NextParse == ApplyParse

SpecParse == InitParse /\ [][NextParse]_vars

\* ------------------------------------------------- the read-only endpoints
\* server.py:63-71
healthz ==
  /\ probed < MaxProbes
  /\ REQUESTS_healthz' = REQUESTS_healthz + 1
  /\ probe' = [NoProbe EXCEPT !.endpoint = "healthz", !.device = DEVICE,
                              !.cuda = torch_imported /\ cuda_available]
  /\ probed' = probed + 1
  /\ UNCHANGED <<engine, mode, env, arg, out, rtc>>

\* server.py:225-228: generate_latest() renders the registry
metrics ==
  /\ probed < MaxProbes
  /\ probe' = [NoProbe EXCEPT !.endpoint = "metrics", !.count = REQUESTS]
  /\ probed' = probed + 1
  /\ UNCHANGED <<engine, mode, env, arg, out, REQUESTS_healthz, rtc>>

\* server.py:243-250
gpu_simulation_status ==
  /\ probed < MaxProbes
  /\ probe' = [NoProbe EXCEPT !.endpoint = "gpu-simulation-status",
                              !.gpu_simulation = GPU_SIMULATION, !.device = DEVICE]
  /\ probed' = probed + 1
  /\ UNCHANGED <<engine, mode, env, arg, out, REQUESTS_healthz, rtc>>

\* server.py:280-288
webrtc_status ==
  /\ probed < MaxProbes
  /\ cleanup.pc = "idle"
  /\ probe' = [NoProbe EXCEPT !.endpoint = "webrtc/status", !.device = DEVICE,
                              !.cuda = torch_imported /\ cuda_available,
                              !.count = IF webrtc_manager THEN Cardinality(connections)
                                        ELSE 0]
  /\ probed' = probed + 1
  /\ UNCHANGED <<engine, mode, env, arg, out, REQUESTS_healthz, rtc>>

\* ----------------------------------------------------------------- WebRTC
\* server.py:267
unavailable_without_library(aiortc, manager) == ~manager

unavailable(aiortc, manager) == ~aiortc \/ ~manager

\* webrtc_processor.py:145
add_forgotten(tracked, id) == tracked

add(tracked, id) == tracked \cup {id}

\* server.py:264-272 with create_peer_connection, webrtc_processor.py:138-153:
\* the availability check and the creation run without an await that yields
OfferBegin(o) ==
  /\ offer[o].pc = "idle"
  /\ offers < MaxOffers
  /\ cleanup.pc = "idle"
  /\ offers' = offers + 1
  /\ IF unavailable(AIORTC_AVAILABLE, webrtc_manager)
     THEN /\ offer' = [offer EXCEPT ![o] = [IdleOffer EXCEPT !.pc = "done", !.status = 501]]
          /\ UNCHANGED <<connections, peers>>
     ELSE IF ~AIORTC_AVAILABLE
     THEN \* create_peer_connection returns None, "if not pc" raises the 500
          /\ offer' = [offer EXCEPT ![o] =
                         [IdleOffer EXCEPT !.pc = "done", !.failed = TRUE, !.status = 500]]
          /\ UNCHANGED <<connections, peers>>
     ELSE \E raises \in BOOLEAN :
            IF raises
            THEN /\ offer' = [offer EXCEPT ![o] =
                                [IdleOffer EXCEPT !.pc = "done", !.failed = TRUE,
                                                  !.status = 500]]
                 /\ UNCHANGED <<connections, peers>>
            ELSE LET id == CHOOSE i \in PeerIds :
                             peers[i] = "none" /\ \A j \in 1..(i - 1) : peers[j] # "none"
                 IN /\ peers' = [peers EXCEPT ![id] = "new"]
                    /\ connections' = add(connections, id)
                    /\ offer' = [offer EXCEPT ![o] =
                                   [IdleOffer EXCEPT !.pc = "answer", !.conn = id]]
  /\ UNCHANGED <<AIORTC_AVAILABLE, webrtc_manager, pending, cleanup>>
  /\ UNCHANGED <<engine, mode, env, scratch, probes>>

\* server.py:274-278: process_offer (webrtc_processor.py:163-180) returns the
\* answer or raises; "except Exception" turns every failure into a 500
OfferAnswer(o) ==
  /\ offer[o].pc = "answer"
  /\ \E raises \in BOOLEAN :
       offer' = [offer EXCEPT ![o] =
                  IF raises
                  THEN [@ EXCEPT !.pc = "done", !.failed = TRUE, !.status = 500]
                  ELSE [@ EXCEPT !.pc = "done", !.status = 200]]
  /\ UNCHANGED <<AIORTC_AVAILABLE, webrtc_manager, connections, peers, pending,
                 cleanup, offers>>
  /\ UNCHANGED <<engine, mode, env, scratch, probes>>

\* the response leaves; the task is free again
OfferRespond(o) ==
  /\ offer[o].pc = "done"
  /\ offer' = [offer EXCEPT ![o] = IdleOffer]
  /\ UNCHANGED <<AIORTC_AVAILABLE, webrtc_manager, connections, peers, pending,
                 cleanup, offers>>
  /\ UNCHANGED <<engine, mode, env, scratch, probes>>

webrtc_offer(o) == OfferBegin(o) \/ OfferAnswer(o) \/ OfferRespond(o)

\* the connection's state moves on with the network (it becomes "closed"
\* only through close()), and the event schedules the handler
PeerChange(id) ==
  /\ peers[id] \in {"new", "connected"}
  /\ peers' = [peers EXCEPT ![id] = IF @ = "new" THEN "connected" ELSE "failed"]
  /\ pending' = pending \cup {id}
  /\ UNCHANGED <<AIORTC_AVAILABLE, webrtc_manager, connections, offer, cleanup, offers>>
  /\ UNCHANGED <<engine, mode, env, scratch, probes>>

\* webrtc_processor.py:147-151
on_connectionstatechange(id) ==
  /\ id \in pending
  /\ pending' = pending \ {id}
  /\ connections' = IF peers[id] = "closed" THEN connections \ {id} ELSE connections
  /\ UNCHANGED <<AIORTC_AVAILABLE, webrtc_manager, peers, offer, cleanup, offers>>
  /\ UNCHANGED <<engine, mode, env, scratch, probes>>

\* server.py:290-294 and webrtc_processor.py:182-187: the server has answered
\* its requests; cleanup() copies the set it will walk
ShutdownBegin ==
  /\ cleanup.pc = "idle"
  /\ \A o \in OfferTasks : offer[o].pc = "idle"
  /\ cleanup' = IF webrtc_manager /\ AIORTC_AVAILABLE
                THEN [pc |-> "closing", todo |-> connections]
                ELSE [pc |-> "done", todo |-> {}]
  /\ UNCHANGED <<AIORTC_AVAILABLE, webrtc_manager, connections, peers, offer, pending,
                 offers>>
  /\ UNCHANGED <<engine, mode, env, scratch, probes>>

\* webrtc_processor.py:188, await pc.close()
CloseOne ==
  /\ cleanup.pc = "closing"
  /\ \E id \in cleanup.todo :
       /\ peers' = [peers EXCEPT ![id] = "closed"]
       /\ pending' = IF peers[id] = "closed" THEN pending ELSE pending \cup {id}
       /\ cleanup' = [cleanup EXCEPT !.todo = @ \ {id}]
  /\ UNCHANGED <<AIORTC_AVAILABLE, webrtc_manager, connections, offer, offers>>
  /\ UNCHANGED <<engine, mode, env, scratch, probes>>

\* webrtc_processor.py:189, self.connections.clear()
ClearAll ==
  /\ cleanup.pc = "closing"
  /\ cleanup.todo = {}
  /\ connections' = {}
  /\ cleanup' = [cleanup EXCEPT !.pc = "done"]
  /\ UNCHANGED <<AIORTC_AVAILABLE, webrtc_manager, peers, offer, pending, offers>>
  /\ UNCHANGED <<engine, mode, env, scratch, probes>>

shutdown_event == ShutdownBegin \/ CloseOne \/ ClearAll

\* the import at server.py:258-262 failed, or succeeded without or with aiortc
InitWebRTC ==
  /\ InitEnv /\ InitMode /\ InitEngine
  /\ [sim |-> GPU_SIMULATION, wanted |-> CUDA_WANTED, torch |-> torch_imported,
      avail |-> cuda_available] \in Configs
  /\ arg = <<>>
  /\ out = [f |-> "none", p |-> 0, v |-> 0]
  /\ InitProbes
  /\ \E imported \in BOOLEAN, aiortc \in BOOLEAN :
       /\ webrtc_manager = imported
       /\ AIORTC_AVAILABLE = (imported /\ aiortc)
  /\ InitRtcIdle

NextWebRTC ==
  \/ \E o \in OfferTasks : webrtc_offer(o)
  \/ \E id \in PeerIds : PeerChange(id)
  \/ \E id \in PeerIds : on_connectionstatechange(id)
  \/ shutdown_event
  \/ webrtc_status

SpecWebRTC == InitWebRTC /\ [][NextWebRTC]_vars

\* one process() thread, one toggling thread and the read-only endpoints
MixedWorkers == {"w1"}

MixedTogglers == {"t1"}

NextMixed ==
  \/ \E p \in MixedWorkers : process(p)
  \/ \E t \in MixedTogglers : toggle_gpu_simulation(t, MaxMixedToggles)
  \/ healthz
  \/ metrics
  \/ gpu_simulation_status
  \/ webrtc_status

SpecMixed == Init /\ [][NextMixed]_vars

\* the engine on a host with an accelerator, under fair scheduling: a
\* request thread inside a call is eventually given its next step (whether
\* another request arrives is the client's choice)
InitLive == Init /\ torch_imported /\ cuda_available

Fairness == \A p \in Workers : WF_vars(call[p].pc # "idle" /\ process(p))

SpecLive == InitLive /\ [][Next]_vars /\ Fairness

\* the latency window on its own: a server that has answered maxlen - 2
\* requests (or none) records further durations
Prefill == [i \in 1..(maxlen - 2) |-> IF i % 2 = 1 THEN 20000000 ELSE 50000000]

InitWindow ==
  /\ InitEnv /\ InitMode /\ InitScratch
  /\ [sim |-> GPU_SIMULATION, wanted |-> CUDA_WANTED, torch |-> torch_imported,
      avail |-> cuda_available] = [sim |-> FALSE, wanted |-> TRUE, torch |-> FALSE, avail |-> FALSE]
  /\ recorded \in {<<>>, Prefill}
  /\ _last_latencies = recorded
  /\ REQUESTS = Len(recorded)
  /\ LATENCY = Len(recorded)
  /\ LATENCY_P95 = IF recorded = <<>> THEN 0 ELSE 50000000
  /\ calls = Len(recorded)
  /\ _concurrent_requests = 0
  /\ call = [p \in Workers |-> IdleCall]
  /\ hist = [p \in Workers |-> NoHist]

\* durations recorded into the window on its own: a short and a long one
WindowNs == {20000000, 50000000}

RecordMore ==
  /\ LET n == Len(recorded)
     IN n < MaxExtra \/ (n >= maxlen - 2 /\ n < maxlen - 2 + MaxExtra)
  /\ \E d \in WindowNs : record(d)
  /\ UNCHANGED <<_concurrent_requests, REQUESTS, LATENCY_P95, call, hist, calls>>
  /\ UNCHANGED <<mode, env, scratch, probes, rtc>>

SpecWindow == InitWindow /\ [][RecordMore]_vars

\* p95 and percentile as functions of a list
Values == 1..3

OneToTen == <<1, 2, 3, 4, 5, 6, 7, 8, 9, 10>>

TenToOne == <<10, 9, 8, 7, 6, 5, 4, 3, 2, 1>>

ListInputs ==
  UNION {[1..n -> Values] : n \in 0..MaxSeqLen} \cup {OneToTen, TenToOne}

InitList ==
  /\ InitEnv /\ InitMode /\ InitEngine
  /\ [sim |-> GPU_SIMULATION, wanted |-> CUDA_WANTED, torch |-> torch_imported,
      avail |-> cuda_available] = [sim |-> FALSE, wanted |-> TRUE, torch |-> FALSE, avail |-> FALSE]
  /\ arg \in ListInputs
  /\ out = [f |-> "none", p |-> 0, v |-> 0]
  /\ InitProbes /\ InitRtcOff

ApplyP95 ==
  /\ out' = [f |-> "p95", p |-> 95, v |-> p95(arg)]
  /\ UNCHANGED <<arg, engine, mode, env, probes, rtc>>

ApplyPercentile ==
  /\ \E p \in {0, 50, 100} : out' = [f |-> "percentile", p |-> p, v |-> percentile(arg, p)]
  /\ UNCHANGED <<arg, engine, mode, env, probes, rtc>>

NextList == ApplyP95 \/ ApplyPercentile

SpecList == InitList /\ [][NextList]_vars

\* ------------------------------------------------------------------ claims
Finished(p) == call[p].pc = "done"

Completed(p) == call[p].pc = "done" /\ call[p].status = 200

Rejected(p) == call[p].pc = "done" /\ call[p].status = 400

Alone(p) == hist[p].solo

\* C1: in every reachable state, with the calls' reads and writes of
\* _concurrent_requests interleaved freely, the in-flight counter is never
\* below zero.
C1_CounterNeverNegative == _concurrent_requests >= 0

\* C2: when a process() call has run to completion (simulated, accelerator,
\* accelerator failure then fallback, or general-purpose path) with no other
\* call in flight, the in-flight counter equals its value before the call.
C2_SoloCallRestoresCounter ==
  \A p \in Workers :
    (Completed(p) /\ Alone(p)) => _concurrent_requests = hist[p].pre.cnt

\* a call that fell back from the accelerator to the general-purpose routine
\* has completed on its own
C2_Witness ==
  \E p \in Workers :
    Completed(p) /\ Alone(p) /\ call[p].ran = <<"gpu", "cpu">> /\ hist[p].incs = 1

\* C3: on every exit path of a process() call (normal return, fallback,
\* rejected input, exception in the general-purpose work) each increment the
\* call made is matched by exactly one decrement.
C3_EveryIncrementMatched ==
  \A p \in Workers : Finished(p) => hist[p].decs = hist[p].incs

\* C4: a request with a malformed pixels string is rejected with 400 and
\* leaves the in-flight counter, the latency window, the latency histogram
\* and the p95 gauge as they were before it.
C4_RejectionLeavesEngineUntouched ==
  \A p \in Workers :
    (Rejected(p) /\ Alone(p)) =>
      /\ _concurrent_requests = hist[p].pre.cnt
      /\ _last_latencies = hist[p].pre.win
      /\ LATENCY = hist[p].pre.lat
      /\ LATENCY_P95 = hist[p].pre.p95

\* C5: the latency window never holds more than 512 entries; it holds all the
\* recorded values while there are at most 512 of them and exactly the last
\* 512, in insertion order, once there are more.
C5_WindowHoldsLast512 ==
  LET n == Len(recorded)
  IN /\ Len(_last_latencies) <= 512
     /\ n <= 512 => _last_latencies = recorded
     /\ n > 512 => _last_latencies = SubSeq(recorded, n - 511, n)

\* two values have been evicted and the newest two entries differ
C5_Witness ==
  /\ Len(recorded) = 514
  /\ Len(_last_latencies) = 512
  /\ _last_latencies[512] # _last_latencies[511]
  /\ _last_latencies[512] = recorded[514]

Below(values, v) == Cardinality({i \in 1..Len(values) : values[i] < v})

AtMost(values, v) == Cardinality({i \in 1..Len(values) : values[i] <= v})

C7_P95Interpolated ==
  out.f = "p95" =>
    /\ arg = OneToTen => 100 * out.v = 955
    /\ arg = <<>> => out.v = 0
    /\ Len(arg) = 1 => out.v = arg[1]

Maximum(values) == CHOOSE x \in Range(values) : \A y \in Range(values) : y <= x

Minimum(values) == CHOOSE x \in Range(values) : \A y \in Range(values) : x <= y

\* C8: for a non-empty window percentile(100) is the largest held value and
\* percentile(0) the smallest.
C8_PercentileExtremes ==
  (out.f = "percentile" /\ arg # <<>>) =>
    /\ out.p = 100 => out.v = Maximum(arg)
    /\ out.p = 0 => out.v = Minimum(arg)

C8_Witness ==
  /\ out.f = "percentile"
  /\ out.p = 100
  /\ arg = <<3, 1, 2>>
  /\ out.v = 3

\* the transition rule of the mode
Rule(override, want, available) ==
  IF override THEN "cuda-simulated"
  ELSE IF want /\ available THEN "cuda"
  ELSE "cpu"

\* C9: the resolved mode is the simulated accelerator when the override flag
\* is set, otherwise the real accelerator when it is wanted and available,
\* otherwise general-purpose; it is general-purpose when the tensor library
\* is missing and the override is off, and always one of the three modes.
C9_ModeFollowsRule ==
  LET available == torch_imported /\ cuda_available
  IN /\ toggles = 0 => DEVICE = Rule(GPU_SIMULATION, CUDA_WANTED, available)
     /\ \A t \in Togglers :
          tog[t].pc = "t_store" =>
            /\ tog[t].d = Rule(tog[t].saw, CUDA_WANTED, available)
            /\ (~torch_imported /\ ~tog[t].saw) => tog[t].d = "cpu"
     /\ DEVICE \in {"cuda-simulated", "cuda", "cpu"}

\* a toggle that switched the override off has resolved the real accelerator
C9_Witness ==
  \E t \in Togglers :
    tog[t].pc = "t_store" /\ ~tog[t].saw /\ tog[t].d = "cuda" /\ DEVICE = "cuda-simulated"

\* C10: two toggles run one after the other, from any state, bring the
\* override flag and the stored mode back to what they were before the first,
\* and the first of them changes the flag.
C10_ToggleTwiceRestores ==
  /\ (tq.n = 1 /\ \A t \in Togglers : tog[t].pc = "idle") => GPU_SIMULATION # tq.sim0
  /\ tq.n = 2 => (GPU_SIMULATION = tq.sim0 /\ DEVICE = tq.dev0)

TogglersIdle == \A t \in Togglers : tog[t].pc = "idle"

Available == torch_imported /\ cuda_available

\* C11 as stated: applying the mode-override operation twice in a row leaves
\* the override flag and the stored mode as one application left them, and
\* the stored mode reflects the new flag when the operation returns.
C11_TwiceSameAsOnce ==
  /\ (tq.n = 1 /\ TogglersIdle) => DEVICE = Rule(GPU_SIMULATION, CUDA_WANTED, Available)
  /\ tq.n = 2 => (GPU_SIMULATION = tq.sim1 /\ DEVICE = tq.dev1)

\* C11, amended: the operation is a flip.  Run with no other toggle in
\* flight it negates the override flag, a second one undoes the first, and
\* each time the stored mode and the response already show the mode of the
\* new flag when the operation returns.
C11_ToggleFlipsImmediately ==
  /\ (tq.n = 1 /\ TogglersIdle) =>
       /\ GPU_SIMULATION = ~tq.sim0
       /\ DEVICE = Rule(GPU_SIMULATION, CUDA_WANTED, Available)
       /\ tog[tq.by].resp = [gpu_simulation |-> GPU_SIMULATION, device |-> DEVICE]
  /\ tq.n = 2 =>
       /\ GPU_SIMULATION = tq.sim0
       /\ GPU_SIMULATION = ~tq.sim1
       /\ DEVICE = Rule(GPU_SIMULATION, CUDA_WANTED, Available)
       /\ tog[tq.by].resp = [gpu_simulation |-> GPU_SIMULATION, device |-> DEVICE]

\* two toggles in a row that started from a stored mode at odds with the flag
C11_Witness ==
  /\ tq.n = 2
  /\ tq.dev0 # Rule(tq.sim0, CUDA_WANTED, Available)
  /\ DEVICE = "cuda"


\* the routine whose return value became result_shape
Executed(p) == call[p].ran[Len(call[p].ran)]

FellBack(p) == call[p].ran = <<"gpu", "cpu">>

\* C12: a request whose accelerator operation failed in real-accelerator mode
\* still ends with status 200, has run the general-purpose routine, and, when
\* no other call was in flight, leaves the in-flight counter at its value
\* before the call.
C12_FallbackSucceeds ==
  \A p \in Workers :
    (Finished(p) /\ FellBack(p)) =>
      /\ call[p].status = 200
      /\ Alone(p) => _concurrent_requests = hist[p].pre.cnt

\* the mode a result reports, from its device and processing_mode fields
Reported(r) ==
  IF r.device = "cuda-simulated" THEN "sim"
  ELSE IF r.device = "cuda" /\ r.processing_mode = "gpu" THEN "gpu"
  ELSE IF r.device = "cpu" /\ r.processing_mode = "cpu" THEN "cpu"
  ELSE "mixed"

\* C13: the result of every completed process() call reports the path that
\* produced its result: simulated accelerator after the simulation branch,
\* general-purpose after cpu_intensive_process (the fallback included), real
\* accelerator only after real_gpu_process returned.
C13_ReportedModeIsExecutedPath ==
  \A p \in Workers : Completed(p) => Reported(call[p].result) = Executed(p)


\* C14: every step that changes the override flag or the stored mode is a
\* step of the toggle operation; process() on each of its paths (the failed
\* accelerator operation and its fallback included), healthz, metrics and the
\* status endpoints leave both as they were.
C14_OnlyToggleChangesMode ==
  [][(GPU_SIMULATION' # GPU_SIMULATION \/ DEVICE' # DEVICE) =>
       \E t \in Togglers : TWrite(t) \/ TStore(t)]_vars

\* a call has fallen back and completed, the endpoints have been read, and
\* the stored mode is still the real accelerator
C14_Witness ==
  /\ \E p \in Workers : Completed(p) /\ FellBack(p)
  /\ REQUESTS_healthz >= 1
  /\ probed >= 1
  /\ DEVICE = "cuda"
  /\ ~GPU_SIMULATION


\* C15: in simulated-accelerator mode every call gets a simulated duration,
\* and it lies in [0.002, 0.015] seconds, whatever the iterations (zero and
\* negative included), the width and height (zero and very large included)
\* and the variation drawn from [-0.15, +0.15].
C15_SimulatedDurationInRange ==
  out.f = "sim" =>
    /\ ~out.raised
    /\ SIM_MIN_NS <= out.duration
    /\ out.duration <= SIM_MAX_NS

RanSim(p) == call[p].pc # "idle" /\ call[p].ran = <<"sim">>

\* C16: the simulation branch never raises, a call that took it ends with
\* status 200, and two calls that took it with the same width, height,
\* iterations and variation draw have the same simulated duration and result
\* shape, whatever the in-flight counter was when each ran.
C16_SimulationNeverFailsNorReadsCounter ==
  /\ out.f = "sim" => ~out.raised
  /\ \A p \in Workers : (Finished(p) /\ RanSim(p)) => call[p].status = 200
  /\ \A p, q \in Workers :
       (/\ RanSim(p) /\ RanSim(q)
        /\ call[p].w = call[q].w /\ call[p].h = call[q].h
        /\ call[p].iters = call[q].iters
        /\ call[p].variation = call[q].variation) =>
         /\ call[p].sim_ns = call[q].sim_ns
         /\ call[p].shape = call[q].shape


\* cpu_intensive_process has returned in this call
RanCpu(p) ==
  /\ Len(call[p].ran) >= 1
  /\ Executed(p) = "cpu"
  /\ call[p].shape # NoShape

\* C17: the general-purpose routine's work grows with the in-flight counter:
\* of two calls with the same width, height and iterations, the one that ran
\* with the counter above 1 did strictly more work than the one that ran with
\* the counter at 1.
C17_CpuWorkGrowsWithLoad ==
  \A p, q \in Workers :
    (/\ RanCpu(p) /\ RanCpu(q)
     /\ call[p].w = call[q].w /\ call[p].h = call[q].h
     /\ call[p].iters = call[q].iters
     /\ call[q].load = 1
     /\ call[p].load > 1) =>
      call[p].work > call[q].work


\* what a completed call has left behind: one recorded duration, one latency
\* observation, one count of the "process" label, and a gauge value that is
\* the nearest-rank p95 of a snapshot holding the call's own duration
OneOfEach(p) ==
  LET snap == call[p].snap
      k == (95 * (Len(snap) - 1)) \div 100
  IN /\ hist[p].recs = 1
     /\ hist[p].obs = 1
     /\ hist[p].reqs = 1
     /\ call[p].dur \in Range(snap)
     /\ hist[p].set \in Range(snap)
     /\ Below(snap, hist[p].set) <= k
     /\ AtMost(snap, hist[p].set) > k

WidthXHeight(p) ==
  \E i \in 2..(Len(p) - 1) :
    /\ p[i] \in {"x", "X"}
    /\ \A j \in (1..Len(p)) \ {i} : p[j] \in Digits

\* C19: parse_pixels accepts a string exactly when it is <width>x<height>
\* with both numbers positive, and then returns those two numbers; a string
\* with another separator, non-digits, spaces, leading or trailing extra
\* characters or a zero dimension is rejected.
C19_ParseAcceptsExactlyPositivePairs ==
  out.f = "parse_pixels" =>
    LET i == CHOOSE k \in 1..Len(arg) : arg[k] \in {"x", "X"}
        width == int(SubSeq(arg, 1, i - 1))
        height == int(SubSeq(arg, i + 1, Len(arg)))
    IN /\ out.r.ok <=> (WidthXHeight(arg) /\ width > 0 /\ height > 0)
       /\ out.r.ok => (out.r.w = width /\ out.r.h = height)


\* C20: a call with negative iterations and a well-formed pixels string ends
\* with status 200 in every mode, has done at least one unit of work, and,
\* when no other call was in flight, leaves the in-flight counter at its
\* value before the call.
C20_NegativeItersDoMinimumWork ==
  \A p \in Workers :
    (Finished(p) /\ call[p].iters < 0 /\ ~Rejected(p)) =>
      /\ call[p].status = 200
      /\ call[p].work >= 1
      /\ Alone(p) => _concurrent_requests = hist[p].pre.cnt

\* calls that have written their increment and not yet their decrement
Counted == {p \in Workers : hist[p].incs = 1 /\ hist[p].decs = 0}

\* no call so far has left through the 400 or the 500 exit: every call begun
\* has made its latency observation or is still on its way to it
NoEarlyExit ==
  /\ \A p \in Workers : Finished(p) => call[p].status = 200
  /\ calls = LATENCY + Cardinality({p \in Workers : call[p].pc # "idle" /\ hist[p].obs = 0})

\* C22: while every call runs to its normal return, the in-flight counter
\* equals the number of process() calls that have performed their increment
\* and not yet their decrement, whatever the interleaving of their
\* read-modify-write steps; when all of them have completed it is back at
\* its initial value.
C22_CounterCountsCallsInFlight ==
  NoEarlyExit =>
    /\ _concurrent_requests = Cardinality(Counted)
    /\ (\A p \in Workers : call[p].pc \in {"idle", "done"}) => _concurrent_requests = 0

\* the routine a call enters first under a (flag, mode) pair, server.py:183, 193
PathOf(flag, dev) ==
  IF flag THEN "sim"
  ELSE IF dev = "cuda" /\ torch_imported /\ cuda_available THEN "gpu"
  ELSE "cpu"

\* the (flag, mode) pairs on either side of the one toggle begun so far
PairBefore == IF tq.n = -1 THEN <<GPU_SIMULATION, DEVICE>> ELSE <<tq.sim0, tq.dev0>>

PairAfter ==
  IF tq.n = -1 THEN <<GPU_SIMULATION, DEVICE>>
  ELSE <<~tq.sim0, Rule(~tq.sim0, CUDA_WANTED, Available)>>

\* C23: a process() call that runs beside one toggle sees the mode state as
\* it was before the toggle or as it is after it: the routine it entered, the
\* device it reports and the processing mode it reports all belong to one of
\* these two (flag, mode) pairs.
C23_CallSeesOnePair ==
  toggles <= 1 =>
    \A p \in Workers :
      Completed(p) =>
        \E pair \in {PairBefore, PairAfter} :
          /\ call[p].ran[1] = PathOf(pair[1], pair[2])
          /\ call[p].result.device = pair[2]
          /\ call[p].result.processing_mode = (IF pair[2] = "cuda" THEN "gpu" ELSE "cpu")

\* the window as it stood when n durations had been appended
WindowAt(n) ==
  IF n <= maxlen THEN SubSeq(recorded, 1, n) ELSE SubSeq(recorded, n - maxlen + 1, n)

HasSnapshot(p) == call[p].pc \in {"gauge", "return"} \/ Completed(p)

\* C24: the list a call hands to p95 equals the latency window as it stood at
\* one instant, after some whole number of appends that includes the call's
\* own, also when other calls append around the snapshot; and a call that
\* has appended its duration never ends in an error.
C24_SnapshotIsConsistent ==
  \A p \in Workers :
    /\ HasSnapshot(p) =>
         \E n \in 1..Len(recorded) :
           /\ call[p].snap = WindowAt(n)
           /\ call[p].dur \in Range(WindowAt(n))
    /\ (Finished(p) /\ hist[p].recs = 1) => call[p].status = 200

\* one call holds a snapshot with two durations while the other call, whose
\* append it includes, has not taken its own snapshot yet
C24_Witness ==
  \E p, q \in Workers :
    /\ p # q
    /\ call[p].pc = "gauge"
    /\ call[q].pc = "snapshot"
    /\ Len(call[p].snap) = 2

\* C25: within a process() call the increment comes before the choice of
\* routine and the work, the work before the decrement, the decrement before
\* the append to the latency window, the append before the gauge update and
\* the gauge update before the return; the concurrent_requests value of the
\* result is read after the call's own decrement, so a call that ran alone
\* reports the counter's value before it began.
C25_StepsInOrder ==
  \A p \in Workers :
    /\ call[p].ran # <<>> => hist[p].incs = 1
    /\ hist[p].decs = 1 => (hist[p].incs = 1 /\ call[p].shape # NoShape)
    /\ hist[p].recs = 1 => (hist[p].decs = 1 /\ hist[p].obs = 1)
    /\ hist[p].set # -1 => hist[p].recs = 1
    /\ Completed(p) => hist[p].set # -1
    /\ (Completed(p) /\ Alone(p)) =>
         call[p].result.concurrent_requests = hist[p].pre.cnt

\* a call that ran alone on an idle server has returned and reports no
\* request in flight
C25_Witness ==
  \E p \in Workers :
    /\ Completed(p) /\ Alone(p)
    /\ hist[p].pre.cnt = 0
    /\ call[p].result.concurrent_requests = 0
    /\ hist[p].set = call[p].dur

Times(s, x) == Cardinality({i \in 1..Len(s) : s[i] = x})

\* C26: within one process() call real_gpu_process is entered at most once
\* and cpu_intensive_process at most once; after real_gpu_process has raised
\* the call enters cpu_intensive_process, once, and never real_gpu_process
\* again.
C26_NoRetries ==
  \A p \in Workers :
    /\ Times(call[p].ran, "gpu") <= 1
    /\ Times(call[p].ran, "cpu") <= 1
    /\ call[p].ran \in {<<>>, <<"sim">>, <<"gpu">>, <<"cpu">>, <<"gpu", "cpu">>}
    /\ (call[p].ran = <<"gpu">> /\ call[p].shape = NoShape) => call[p].pc = "cpu"

\* the accelerator operation has raised and the general-purpose routine has
\* returned in its place
C26_Witness ==
  \E p \in Workers : call[p].pc = "timed" /\ FellBack(p) /\ call[p].shape # NoShape

\* C28: whenever no toggle is in progress the stored mode is the one the
\* resolution rule yields for the current override flag, also after toggles
\* whose flag write and mode write interleaved, and the flag has been flipped
\* once for every completed toggle.
C28_ModeAgreesWithFlag ==
  TogglersIdle =>
    /\ DEVICE = Rule(GPU_SIMULATION, CUDA_WANTED, Available)
    /\ GPU_SIMULATION = (IF toggles % 2 = 0 THEN flag0 ELSE ~flag0)

\* no call stands between its append to the window and its gauge update
NoneBetweenAppendAndGauge == \A p \in Workers : call[p].pc \notin {"snapshot", "gauge"}

\* C29: whenever no process() call is between appending its duration and
\* setting the gauge, the p95 gauge holds the p95 of the latency window as it
\* is now (0, its initial value, while the window is empty), also when the
\* append, snapshot and gauge steps of several calls interleave.
C29_GaugeIsP95OfWindow ==
  NoneBetweenAppendAndGauge => LATENCY_P95 = p95(_last_latencies)

\* C27: under fair scheduling every process() call that has incremented the
\* in-flight counter eventually decrements it, and every call whose pixels
\* string parsed eventually appends its duration to the latency window,
\* whatever the other calls are doing.
C27_EveryCallFinishesItsBookkeeping ==
  \A p \in Workers :
    (call[p].pc = "parse") ~>
      (/\ Finished(p)
       /\ hist[p].decs = 1
       /\ ~Rejected(p) => hist[p].recs = 1)

\* C21: an offer made while the media library is missing or no manager
\* exists is answered 501 and no peer connection is ever created; an offer
\* whose connection creation or processing failed is answered 500; every
\* offer that ends has one of the statuses 200, 500, 501.
WebRTCUnavailable == ~AIORTC_AVAILABLE \/ ~webrtc_manager

Created == {id \in PeerIds : peers[id] # "none"}

Open == {id \in PeerIds : peers[id] \notin {"none", "closed"}}

StatusAnswered == probed' = probed + 1 /\ probe'.endpoint = "webrtc/status"

\* C30 as stated: in every state the tracked set is exactly the created
\* connections that have not reached the closed state.
C30_TrackedIsExactlyOpen == connections = Open

\* C30 amended: outside a running cleanup() the tracked set is exactly the
\* created connections that are not closed; while cleanup() runs it holds
\* every open connection and only created ones; after cleanup() every created
\* connection is closed and the set is empty; the status endpoint reports
\* the number of open connections.
C30_TrackedIsOpenOutsideCleanup ==
  /\ [](/\ cleanup.pc # "closing" => connections = Open
        /\ cleanup.pc = "idle" => Open = Created
        /\ cleanup.pc = "closing" => (Open \subseteq connections /\ connections \subseteq Created)
        /\ cleanup.pc = "done" => (connections = {} /\ Open = {}))
  /\ [][StatusAnswered => probe'.count = Cardinality(Open)]_vars

C30_Witness ==
  /\ cleanup.pc = "done"
  /\ Cardinality(Created) = MaxOffers
  /\ probe.endpoint = "webrtc/status" /\ probe.count > 0

====
